---- MODULE Spec2Model ----
(***************************************************************************)
(* TechNova registration portal: the Express record service of             *)
(* src/server/server.js and the React registration form of                 *)
(* src/unnamed/part_000 (src/components/Registration.jsx).                 *)
(*                                                                         *)
(* JavaScript values are tagged tuples: Undef, Null, Str(chars), Arr(xs),  *)
(* Other.  A string is a sequence of one-character strings, so that the    *)
(* regular expressions and trim() of the code are computed on characters.  *)
(***************************************************************************)
EXTENDS Integers, Sequences, FiniteSets, TLC

\* ------------------------------------------------------------------ values
Undef == <<"undefined">>
Null == <<"null">>
Other == <<"object">>
Str(s) == <<"string", s>>
Arr(a) == <<"array", a>>
IsStr(v) == v[1] = "string"
IsArr(v) == v[1] = "array"

\* String(v) as express-validator's toString: undefined/null become ''
ToChars(v) == IF IsStr(v) THEN v[2] ELSE <<>>

\* JavaScript truthiness of a value (!value)
Truthy(v) == 
  CASE v[1] = "string" -> Len(v[2]) > 0
    [] v[1] = "array" -> TRUE
    [] v[1] = "object" -> TRUE
    [] OTHER -> FALSE

\* --------------------------------------------------------- character classes
UpperCase == {"A","B","C","D","E","F","G","H","I","J","K","L","M",
              "N","O","P","Q","R","S","T","U","V","W","X","Y","Z"}
LowerCase == {"a","b","c","d","e","f","g","h","i","j","k","l","m",
              "n","o","p","q","r","s","t","u","v","w","x","y","z"}
Digit == {"0","1","2","3","4","5","6","7","8","9"}
Special == {"!","@","#","$","%","^","&","*","(",")",",",".","?","\"",
            ":","{","}","|","<",">"}
WhiteSpace == {" ", "\t", "\n"}

HasChar(s, C) == \E i \in 1..Len(s) : s[i] \in C

\* String.prototype.trim
RECURSIVE TrimLeft(_)
TrimLeft(s) == IF Len(s) > 0 /\ Head(s) \in WhiteSpace THEN TrimLeft(Tail(s)) ELSE s
RECURSIVE TrimRight(_)
TrimRight(s) == 
  IF Len(s) > 0 /\ s[Len(s)] \in WhiteSpace 
  THEN TrimRight(SubSeq(s, 1, Len(s) - 1)) ELSE s
Trim(s) == TrimRight(TrimLeft(s))

\* ------------------------------------------------------------ server: rules
MinPasswordLength == 8
MinNameLength == 2

MsgLength == "Password must be at least 8 characters"
MsgUpper == "Password must contain at least one uppercase letter"
MsgLower == "Password must contain at least one lowercase letter"
MsgNumber == "Password must contain at least one number"
MsgSpecial == "Password must contain at least one special character"
MsgName == "Name must be at least 2 characters"
MsgEmail == "Invalid email address"
MsgRole == "Invalid role"
MsgPhone == "Invalid phone number format"
MsgSkills == "Skills must be an array"

\* one validation error of express-validator: the field, the value it had, the message
Err(path, value, msg) == [path |-> path, value |-> value, msg |-> msg]

\* the chain stopping at its first failed validator
PasswordChainBail(value) ==
  LET s == ToChars(value)
      E(msg) == <<Err("password", value, msg)>>
  IN  IF Len(s) < MinPasswordLength THEN E(MsgLength)
      ELSE IF ~HasChar(s, UpperCase) THEN E(MsgUpper)
      ELSE IF ~HasChar(s, LowerCase) THEN E(MsgLower)
      ELSE IF ~HasChar(s, Digit) THEN E(MsgNumber)
      ELSE IF ~HasChar(s, Special) THEN E(MsgSpecial)
      ELSE <<>>

\* the chain passwordValidation: every failed validator of the chain reports
PasswordChain(value) ==
  LET s == ToChars(value)
      E(ok, msg) == IF ok THEN <<>> ELSE <<Err("password", value, msg)>>
  IN  E(Len(s) >= MinPasswordLength, MsgLength)
      \o E(HasChar(s, UpperCase), MsgUpper)
      \o E(HasChar(s, LowerCase), MsgLower)
      \o E(HasChar(s, Digit), MsgNumber)
      \o E(HasChar(s, Special), MsgSpecial)

\* !value || value.trim() === ''
BlankPassword(value) == ~Truthy(value) \/ Len(Trim(ToChars(value))) = 0

\* body('password').custom(...): skipped on PUT with a blank password
PasswordRule(method, value) ==
  IF method = "PUT" /\ BlankPassword(value) THEN <<>> ELSE PasswordChain(value)

\* body('email').isEmail(): one "@", a non-empty local part, and a domain of
\* two or more non-empty labels whose last one is alphabetic, two or more long
LocalChars == UpperCase \cup LowerCase \cup Digit \cup {".", "_", "-", "+"}
LabelChars == UpperCase \cup LowerCase \cup Digit \cup {"-"}
Letters == UpperCase \cup LowerCase

AtPositions(s) == {i \in 1..Len(s) : s[i] = "@"}

\* the labels of a domain name are well formed between positions lo..hi
RECURSIVE DomainOk(_, _, _)
DomainOk(s, lo, seenDot) ==
  LET dots == {i \in lo..Len(s) : s[i] = "."}
  IN  IF dots = {}
      THEN /\ seenDot
           /\ Len(s) - lo + 1 >= 2
           /\ \A i \in lo..Len(s) : s[i] \in Letters
      ELSE LET d == CHOOSE i \in dots : \A j \in dots : i <= j
           IN  /\ d > lo
               /\ \A i \in lo..(d - 1) : s[i] \in LabelChars
               /\ DomainOk(s, d + 1, TRUE)

IsEmail(value) ==
  LET s == ToChars(value)
      ats == AtPositions(s)
  IN  /\ Cardinality(ats) = 1
      /\ LET a == CHOOSE i \in ats : TRUE
         IN  /\ a > 1
             /\ \A i \in 1..(a - 1) : s[i] \in LocalChars
             /\ s[1] # "." /\ s[a - 1] # "."
             /\ DomainOk(s, a + 1, FALSE)

\* the phone pattern: positions reachable after each piece of
\* /^[+]?[(]?[0-9]{1,4}[)]?[-\s.]?[0-9]{1,4}[-\s.]?[0-9]{1,9}$/
Step(s, P, C) == {p + 1 : p \in {q \in P : q <= Len(s) /\ s[q] \in C}}
Opt(s, P, C) == P \cup Step(s, P, C)
RECURSIVE Rep(_, _, _, _, _)
Rep(s, P, C, lo, hi) ==
  IF hi = 0 THEN P
  ELSE LET Q == Step(s, P, C)
       IN  IF lo > 0 THEN Rep(s, Q, C, lo - 1, hi - 1)
           ELSE P \cup Rep(s, Q, C, 0, hi - 1)
Separator == {"-", "."} \cup WhiteSpace
PhoneAreaMax == 4
PhoneLineMax == 9

PhoneMatches(s) ==
  LET p1 == Opt(s, {1}, {"+"})
      p2 == Opt(s, p1, {"("})
      p3 == Rep(s, p2, Digit, 1, PhoneAreaMax)
      p4 == Opt(s, p3, {")"})
      p5 == Opt(s, p4, Separator)
      p6 == Rep(s, p5, Digit, 1, PhoneAreaMax)
      p7 == Opt(s, p6, Separator)
      p8 == Rep(s, p7, Digit, 1, PhoneLineMax)
  IN  (Len(s) + 1) \in p8

Roles == {<<"u","s","e","r">>, <<"a","d","m","i","n">>,
          <<"d","e","v","e","l","o","p","e","r">>}

\* body('name').trim(): the sanitizer replaces req.body.name
SanitizeName(value) == Str(Trim(ToChars(value)))
Sanitize(body) == [body EXCEPT !.name = SanitizeName(body.name)]

\* validationResult(req).array() for the chain list validateUser
ValidateUser(method, body) ==
  LET E(ok, path, msg) == IF ok THEN <<>> ELSE <<Err(path, body[path], msg)>>
      nameE == IF Len(Trim(ToChars(body.name))) >= MinNameLength THEN <<>>
               ELSE <<Err("name", SanitizeName(body.name), MsgName)>>
  IN  nameE
      \o E(IsEmail(body.email), "email", MsgEmail)
      \o PasswordRule(method, body.password)
      \o E(IsStr(body.role) /\ body.role[2] \in Roles, "role", MsgRole)
      \o E(body.phone = Undef \/ PhoneMatches(ToChars(body.phone)), "phone", MsgPhone)
      \o E(IsArr(body.skills), "skills", MsgSkills)

\* ------------------------------------------------------------ server: state
VARIABLES
  users,      \* the users table: id -> row
  nextId,     \* AUTO_INCREMENT counter of the table
  nextSalt,   \* bcrypt.genSalt draws a fresh random salt; salts are numbered
  req,        \* the requests being handled: slot -> request
  nreq,       \* number of POST/PUT/DELETE requests received so far
  lastRead,   \* the response of the latest GET request
  lastGet,    \* the id the latest GET asked for and the row its SELECT found
  mode,       \* "conc": handlers interleave; "seq": one request at a time
  jsonColumn  \* what the driver hands back for the JSON column skills:
              \* "text" (MariaDB: JSON is LONGTEXT) or "parsed" (MySQL: decoded)

serverVars == <<users, nextId, nextSalt, req, nreq, lastRead, lastGet, mode,
                jsonColumn>>

\* ------------------------------------------------------------ client: state
VARIABLES
  formData,            \* the draft
  passwordValidation,  \* the five stored predicate flags
  effectPending,       \* formData.password changed and its effect has not run yet
  editingId,           \* 0 stands for null
  isLoading,           \* the busy flag
  fetching,            \* GET /api/users requests in flight
  submitting,          \* POST/PUT requests of handleSubmit in flight
  deleting,            \* DELETE requests in flight
  clientUsers,         \* the list shown in the table
  started,             \* submit and delete requests started so far
  lastEvent            \* what the latest step was, and the draft it found

clientVars == <<formData, passwordValidation, effectPending, editingId, isLoading,
                fetching, submitting, deleting, clientUsers, started, lastEvent>>

vars == <<serverVars, clientVars>>

Slots == {"r1", "r2"}
MaxRequests == 3
MaxId == 2
Ids == 1..MaxId

\* bcrypt.hash(password, salt)
Hash(pw, salt) == <<"bcrypt", salt, pw>>

\* JSON.stringify of an array of strings, as a sequence of tokens
RECURSIVE JsonItems(_)
JsonItems(a) ==
  IF Len(a) = 0 THEN <<>>
  ELSE IF Len(a) = 1 THEN <<"\"", a[1], "\"">>
  ELSE <<"\"", a[1], "\"", ",">> \o JsonItems(Tail(a))
JsonStringify(v) == <<"[">> \o JsonItems(v[2]) \o <<"]">>

\* skills || []
SkillsOrEmpty(v) == IF Truthy(v) THEN v ELSE Arr(<<>>)

ServerError == [status |-> 500, body |-> [message |-> "Server error"]]
NotFound == [status |-> 404, body |-> [message |-> "User not found"]]
Message(status, text) == [status |-> status, body |-> [message |-> text]]
NoResp == [status |-> 0, body |-> [message |-> ""]]

EmptyBody == [name |-> Undef, email |-> Undef, password |-> Undef,
              phone |-> Undef, role |-> Undef, skills |-> Undef]

\* no row: what a lookup that matches nothing stands for
NoRow == [id |-> 0, name |-> Null, email |-> Null, password |-> Null, phone |-> Null,
          role |-> Null, skills |-> <<>>]

\* a slot not in use
Idle == [st |-> "idle", method |-> "", id |-> 0, body |-> EmptyBody, pc |-> "",
         resp |-> NoResp, seq |-> 0, found |-> FALSE, conflict |-> FALSE,
         wrote |-> FALSE, pre |-> NoRow, post |-> NoRow]

\* SELECT id FROM users WHERE email = ?
RowsByEmail(email) == {i \in DOMAIN users : users[i].email = email}
\* SELECT id FROM users WHERE email = ? AND id != ?
RowsByEmailNotId(email, id) == RowsByEmail(email) \ {id}
\* SELECT id FROM users WHERE id = ?
RowsById(id) == {i \in DOMAIN users : i = id}

\* pool.execute rejects a parameter list that holds undefined
BindOk(params) == \A i \in 1..Len(params) : params[i] # Undef

DuplicateKeyUnchecked(email, id) == FALSE

\* the UNIQUE key on column email: another row holds the email
DuplicateKey(email, id) == RowsByEmailNotId(email, id) # {}

\* the row of a request in a table: by its id, a created one by its email
TargetRow(r, table) ==
  IF r.method = "POST"
  THEN LET hit == {i \in DOMAIN table : table[i].email = Sanitize(r.body).email}
       IN  IF hit = {} THEN NoRow ELSE table[CHOOSE i \in hit : TRUE]
  ELSE IF r.id \in DOMAIN table THEN table[r.id] ELSE NoRow

\* the handler answers `resp` and leaves the table `after`; what it found is
\* recorded with the answer: conflict (another record held the email when the
\* answer was given), wrote (the table changed), pre and post (the target row)
Finish(r, resp, after) ==
  [r EXCEPT !.st = "done", !.pc = "", !.resp = resp,
            !.conflict = RowsByEmailNotId(Sanitize(r.body).email, r.id) # {},
            !.wrote = (after # users),
            !.pre = TargetRow(r, users),
            !.post = TargetRow(r, after)]

\* the row the INSERT of app.post writes
NewRow(id, b, salt) ==
  [id |-> id, name |-> b.name, email |-> b.email,
   password |-> Hash(ToChars(b.password), salt), phone |-> b.phone,
   role |-> b.role, skills |-> JsonStringify(SkillsOrEmpty(b.skills))]

\* res.status(201).json({id, name, email, phone, role, skills})
Created(id, b) ==
  [status |-> 201,
   body |-> [id |-> id, name |-> b.name, email |-> b.email, phone |-> b.phone,
             role |-> b.role, skills |-> b.skills]]

\* ----------------------------------------------------------- request bodies
UserRole == Str(<<"u","s","e","r">>)
RootRole == Str(<<"r","o","o","t">>)
Jo == Str(<<"J","o">>)
PaddedAl == Str(<<" ","A","l"," ">>)
PaddedJ == Str(<<" ","J"," ">>)
E1 == Str(<<"a","@","b",".","c","o">>)
E2 == Str(<<"c","@","d",".","i","o">>)
BadEmail == Str(<<"b","a","d">>)
Strong == Str(<<"A","b","c","d","e","f","1","!">>)
EmptyPw == Str(<<>>)
SpacesPw == Str(<<" "," ">>)
ShortPw == Str(<<"A","b","1","!">>)
NoUpperPw == Str(<<"a","b","c","d","e","f","1","!">>)
NoLowerPw == Str(<<"A","B","C","D","E","F","1","!">>)
NoDigitPw == Str(<<"A","b","c","d","e","f","g","!">>)
NoSpecialPw == Str(<<"A","b","c","d","e","f","1","2">>)
WeakPw == Str(<<"x">>)
GoodPhone == Str(<<"+","1"," ","5","5","5","-","1","2","3","4">>)
BadPhone == Str(<<"a","b","c">>)
EmptyPhone == Str(<<>>)
ReactAws == Arr(<<"React", "AWS">>)
NoSkills == Arr(<<>>)
NotArray == Str(<<"R">>)

Body(n, e, pw, ph, r, sk) ==
  [name |-> n, email |-> e, password |-> pw, phone |-> ph, role |-> r, skills |-> sk]

\* bodies whose fields are well formed, differing in name, email and password
RaceBodies ==
  {Body(Jo, E1, Strong, GoodPhone, UserRole, ReactAws),
   Body(PaddedAl, E2, Strong, GoodPhone, UserRole, NoSkills),
   Body(PaddedAl, E1, EmptyPw, GoodPhone, UserRole, ReactAws),
   Body(Jo, E2, SpacesPw, GoodPhone, UserRole, NoSkills),
   Body(Jo, E1, Undef, GoodPhone, UserRole, ReactAws)}

\* bodies that break the validation rules in every combination
RuleBodies ==
  {Body(n, e, pw, ph, r, sk) :
     n \in {Jo, PaddedJ}, e \in {E1, BadEmail},
     pw \in {Strong, ShortPw, NoUpperPw, NoLowerPw, NoDigitPw, NoSpecialPw, WeakPw, Undef},
     ph \in {GoodPhone, BadPhone, EmptyPhone, Undef}, r \in {UserRole, RootRole},
     sk \in {NoSkills, NotArray}}

\* the bodies of interleaved requests: two emails to compete for
ConcBodies == {Body(Jo, e, Strong, GoodPhone, UserRole, ReactAws) : e \in {E1, E2}}

\* validationResult of every request the model sends, computed once
AllBodies == RaceBodies \cup RuleBodies \cup ConcBodies
Validation == [m \in {"POST", "PUT"}, b \in AllBodies |-> ValidateUser(m, b)]

Bodies ==
  CASE mode = "seq" -> RaceBodies
    [] mode = "rules" -> RuleBodies
    [] OTHER -> ConcBodies

\* ---------------------------------------------------------- server: actions
\* a handler may start: outside "conc" mode only when no other request is running
CanStart(s) ==
  /\ req[s].st = "idle"
  /\ nreq < MaxRequests
  /\ mode # "conc" => \A t \in Slots : req[t].st # "run"
  /\ mode = "rules" => s = "r1"

Begin(method, id, body) ==
  [Idle EXCEPT !.st = "run", !.method = method, !.id = id, !.body = body,
               !.seq = nreq + 1, !.found = (id \in DOMAIN users)]

\* app.post: validation, then the email pre-check
PostStartResult(body) ==
  LET errs == Validation["POST", body]
      b == Sanitize(body)
      r == Begin("POST", 0, body)
      taken == RowsByEmail(b.email) # {}
  IN  IF errs # <<>>
      THEN Finish(r, [status |-> 400, body |-> [errors |-> errs]], users)
      ELSE IF taken
      THEN Finish(r, Message(400, "Email already registered"), users)
      ELSE [r EXCEPT !.pc = "insert"]

PostStart(s, body) ==
  /\ CanStart(s)
  /\ req' = [req EXCEPT ![s] = PostStartResult(body)]
  /\ nreq' = nreq + 1
  /\ UNCHANGED <<users, nextId, nextSalt, lastRead, lastGet, mode, jsonColumn,
               clientVars>>

\* app.post: hash, INSERT, 201; the UNIQUE key on email rejects a duplicate
PostInsert(s) ==
  LET r == req[s]
      b == Sanitize(r.body)
      row == NewRow(nextId, b, nextSalt)
      params == <<b.name, b.email, row.password, b.phone, b.role, row.skills>>
  IN  /\ r.st = "run" /\ r.pc = "insert"
      /\ nextSalt' = nextSalt + 1
      /\ IF ~BindOk(params) \/ DuplicateKey(b.email, 0)
         THEN /\ req' = [req EXCEPT ![s] = Finish(r, ServerError, users)]
              /\ UNCHANGED <<users, nextId>>
         ELSE /\ users' = (nextId :> row) @@ users
              /\ nextId' = nextId + 1
              /\ req' = [req EXCEPT ![s] = Finish(r, Created(nextId, b), users')]
      /\ UNCHANGED <<nreq, lastRead, lastGet, mode, jsonColumn,
               clientVars>>

\* app.put without the existence check
PutStartNoLookup(id, body) ==
  LET errs == Validation["PUT", body]
      r == Begin("PUT", id, body)
  IN  IF errs # <<>>
      THEN Finish(r, [status |-> 400, body |-> [errors |-> errs]], users)
      ELSE [r EXCEPT !.pc = "emailCheck"]

\* app.put: validation, then the existence check
PutStartResult(id, body) ==
  LET errs == Validation["PUT", body]
      r == Begin("PUT", id, body)
      exists == RowsById(id) # {}
  IN  IF errs # <<>>
      THEN Finish(r, [status |-> 400, body |-> [errors |-> errs]], users)
      ELSE IF ~exists
      THEN Finish(r, NotFound, users)
      ELSE [r EXCEPT !.pc = "emailCheck"]

PutStart(s, id, body) ==
  /\ CanStart(s)
  /\ req' = [req EXCEPT ![s] = PutStartResult(id, body)]
  /\ nreq' = nreq + 1
  /\ UNCHANGED <<users, nextId, nextSalt, lastRead, lastGet, mode, jsonColumn,
               clientVars>>

\* app.put: is the email used by another user
PutEmailCheckResult(r) ==
  LET b == Sanitize(r.body)
      taken == RowsByEmailNotId(b.email, r.id) # {}
  IN  IF Truthy(b.email) /\ taken
      THEN Finish(r, Message(400, "Email already in use by another account"), users)
      ELSE [r EXCEPT !.pc = "write"]

PutEmailCheck(s) ==
  /\ req[s].st = "run" /\ req[s].pc = "emailCheck"
  /\ req' = [req EXCEPT ![s] = PutEmailCheckResult(req[s])]
  /\ UNCHANGED <<users, nextId, nextSalt, nreq, lastRead, lastGet, mode, jsonColumn,
               clientVars>>

\* the test without trim(): password alone
HasNewPasswordUntrimmed(b) == Truthy(b.password)

\* password && password.trim() !== ''
HasNewPassword(b) == ~BlankPassword(b.password)

\* the UPDATE hashing with one fixed salt instead of a generated one
UpdatedRowFixedSalt(old, b, salt) ==
  [old EXCEPT !.name = b.name, !.email = b.email, !.phone = b.phone,
              !.role = b.role, !.skills = JsonStringify(SkillsOrEmpty(b.skills)),
              !.password = IF ~BlankPassword(b.password) THEN Hash(ToChars(b.password), 0)
                           ELSE old.password]

\* the row an UPDATE of app.put leaves: with or without the password column
UpdatedRow(old, b, salt) ==
  [old EXCEPT !.name = b.name, !.email = b.email, !.phone = b.phone,
              !.role = b.role, !.skills = JsonStringify(SkillsOrEmpty(b.skills)),
              !.password = IF HasNewPassword(b) THEN Hash(ToChars(b.password), salt)
                           ELSE old.password]

\* app.put: UPDATE ... WHERE id = ?, then 200
PutWrite(s) ==
  LET r == req[s]
      b == Sanitize(r.body)
      params == <<b.name, b.email, b.phone, b.role>>
      exists == r.id \in DOMAIN users
      taken == exists /\ DuplicateKey(b.email, r.id)
      row == UpdatedRow(users[r.id], b, nextSalt)
  IN  /\ r.st = "run" /\ r.pc = "write"
      /\ nextSalt' = IF HasNewPassword(b) THEN nextSalt + 1 ELSE nextSalt
      /\ IF ~BindOk(params) \/ taken
         THEN /\ req' = [req EXCEPT ![s] = Finish(r, ServerError, users)]
              /\ UNCHANGED users
         ELSE /\ users' = IF exists THEN [users EXCEPT ![r.id] = row] ELSE users
              /\ req' = [req EXCEPT ![s] =
                           Finish(r, Message(200, "User updated successfully"), users')]
      /\ UNCHANGED <<nextId, nreq, lastRead, lastGet, mode, jsonColumn,
               clientVars>>

\* app.delete: one DELETE statement; affectedRows decides the answer
Delete(s, id) ==
  LET r == Begin("DELETE", id, EmptyBody)
      exists == id \in DOMAIN users
  IN  /\ CanStart(s)
      /\ nreq' = nreq + 1
      /\ IF exists
         THEN /\ users' = [i \in DOMAIN users \ {id} |-> users[i]]
              /\ req' = [req EXCEPT ![s] =
                           Finish(r, Message(200, "User deleted successfully"), users')]
         ELSE /\ UNCHANGED users
              /\ req' = [req EXCEPT ![s] = Finish(r, NotFound, users)]
      /\ UNCHANGED <<nextId, nextSalt, lastRead, lastGet, mode, jsonColumn,
               clientVars>>

\* the response has been sent and the handler is gone
Recycle(s) ==
  /\ req[s].st = "done"
  /\ req' = [req EXCEPT ![s] = Idle]
  /\ UNCHANGED <<users, nextId, nextSalt, nreq, lastRead, lastGet, mode, jsonColumn,
               clientVars>>

\* JSON.parse of a token sequence: [ok, value]; ok = FALSE is a SyntaxError
RECURSIVE ParseItems(_, _)
ParseItems(toks, acc) ==
  IF Len(toks) >= 3 /\ toks[1] = "\"" /\ toks[3] = "\""
  THEN LET rest == SubSeq(toks, 4, Len(toks))
           got == Append(acc, toks[2])
       IN  IF rest = <<"]">> THEN [ok |-> TRUE, value |-> Arr(got)]
           ELSE IF Len(rest) > 1 /\ rest[1] = "," THEN ParseItems(Tail(rest), got)
           ELSE [ok |-> FALSE, value |-> Undef]
  ELSE [ok |-> FALSE, value |-> Undef]

JsonParse(toks) ==
  IF toks = <<"[", "]">> THEN [ok |-> TRUE, value |-> Arr(<<>>)]
  ELSE IF Len(toks) > 0 /\ toks[1] = "[" THEN ParseItems(Tail(toks), <<>>)
  ELSE [ok |-> FALSE, value |-> Undef]

\* String(array): the elements joined by commas, as JSON.parse sees a non-string
RECURSIVE JoinItems(_)
JoinItems(a) ==
  IF Len(a) = 0 THEN <<>>
  ELSE IF Len(a) = 1 THEN <<a[1]>>
  ELSE <<a[1], ",">> \o JoinItems(Tail(a))

\* the value of column skills as the driver returns it
ColumnValue(stored) ==
  IF jsonColumn = "parsed" THEN JoinItems(JsonParse(stored).value[2]) ELSE stored

\* JSON.parse(user.skills || '[]')
ParseSkills(stored) ==
  LET v == ColumnValue(stored)
  IN  IF jsonColumn = "text" /\ Len(v) = 0 THEN JsonParse(<<"[", "]">>) ELSE JsonParse(v)

\* SELECT *: the password column comes along
SelectUserStar(row) == row

\* SELECT id, name, email, phone, role, skills
SelectUser(row) ==
  [id |-> row.id, name |-> row.name, email |-> row.email, phone |-> row.phone,
   role |-> row.role, skills |-> row.skills]

\* { ...user, skills: JSON.parse(...) }
UserJson(row) == [SelectUser(row) EXCEPT !.skills = ParseSkills(row.skills).value]

\* app.get('/api/users')
ListResult ==
  IF \E i \in DOMAIN users : ~ParseSkills(users[i].skills).ok
  THEN ServerError
  ELSE [status |-> 200, body |-> [rows |-> {UserJson(users[i]) : i \in DOMAIN users}]]

ListUsers ==
  /\ lastRead' = ListResult
  /\ lastGet' = [id |-> 0, row |-> NoRow]
  /\ UNCHANGED <<users, nextId, nextSalt, req, nreq, mode, jsonColumn, clientVars>>

\* app.get('/api/users/:id')
GetResult(id) ==
  IF RowsById(id) = {} THEN NotFound
  ELSE IF ~ParseSkills(users[id].skills).ok THEN ServerError
  ELSE [status |-> 200, body |-> UserJson(users[id])]

GetUser(id) ==
  /\ lastRead' = GetResult(id)
  /\ lastGet' = [id |-> id, row |-> IF id \in DOMAIN users THEN users[id] ELSE NoRow]
  /\ UNCHANGED <<users, nextId, nextSalt, req, nreq, mode, jsonColumn, clientVars>>

\* ------------------------------------------------------- server: behaviours
InitServer(m) ==
  /\ users = <<>>
  /\ nextId = 1
  /\ nextSalt = 1
  /\ req = [s \in Slots |-> Idle]
  /\ nreq = 0
  /\ lastRead = NoResp
  /\ lastGet = [id |-> 0, row |-> NoRow]
  /\ mode = m
  /\ jsonColumn \in IF m \in {"client", "busy"} THEN {"text"} ELSE {"text", "parsed"}

\* ---------------------------------------------------------- client: helpers
NoEdit == 0
MaxStarted == 3

EmptyDraft ==
  [name |-> <<>>, email |-> <<>>, password |-> <<>>, phone |-> <<>>,
   role |-> UserRole[2], skills |-> <<>>]

\* the request body handleSubmit sends: the draft as JSON
DraftBody(d) ==
  Body(Str(d.name), Str(d.email), Str(d.password), Str(d.phone), Str(d.role),
       Arr(d.skills))

\* validatePassword: the five flags of a password
ValidatePassword(password) ==
  [minLength |-> Len(password) >= MinPasswordLength,
   hasUppercase |-> HasChar(password, UpperCase),
   hasLowercase |-> HasChar(password, LowerCase),
   hasNumber |-> HasChar(password, Digit),
   hasSpecial |-> HasChar(password, Special)]

\* isPasswordValid, as a render or a handler evaluates it
IsPasswordValid ==
  IF editingId # NoEdit /\ Len(formData.password) = 0 THEN TRUE
  ELSE \A k \in DOMAIN passwordValidation : passwordValidation[k] = TRUE

\* the disabled attribute of the submit button of the current render
SubmitDisabled ==
  IF editingId # NoEdit
  THEN isLoading \/ (Len(formData.password) > 0 /\ ~IsPasswordValid)
  ELSE isLoading \/ ~IsPasswordValid

\* the required attributes of the name, email and password inputs
RequiredFilled ==
  /\ Len(formData.name) > 0
  /\ Len(formData.email) > 0
  /\ editingId = NoEdit => Len(formData.password) > 0

ChangeFields == {"name", "email", "password"}
ChangeValues(field) ==
  CASE field = "name" -> IF mode = "busy" THEN {Jo[2]} ELSE {<<>>, Jo[2]}
    [] field = "email" -> IF mode = "busy" THEN {E1[2]} ELSE {<<>>, E1[2]}
    [] field = "password" -> IF mode = "busy" THEN {<<>>, Strong[2]}
                             ELSE {<<>>, Strong[2], NoSpecialPw[2]}

SkillOptions == {"React"}

\* the lists a GET /api/users can answer with
ListedUser ==
  [id |-> 1, name |-> Jo[2], email |-> E1[2], phone |-> GoodPhone[2],
   role |-> UserRole[2], skills |-> <<"React">>]
ServerLists == {<<>>, <<ListedUser>>}

Event(type, ok) == [type |-> type, ok |-> ok, draft |-> formData, editing |-> editingId]

\* ---------------------------------------------------------- client: actions
\* useEffect on formData.password: validatePassword(formData.password)
PasswordEffect ==
  /\ effectPending
  /\ passwordValidation' = ValidatePassword(formData.password)
  /\ effectPending' = FALSE
  /\ lastEvent' = Event("effect", TRUE)
  /\ UNCHANGED <<formData, editingId, isLoading, fetching, submitting, deleting,
                 clientUsers, started, serverVars>>

HandleChange(field, value) ==
  /\ formData' = [formData EXCEPT ![field] = value]
  /\ effectPending' = (effectPending \/ formData'.password # formData.password)
  /\ lastEvent' = Event("change", TRUE)
  /\ UNCHANGED <<passwordValidation, editingId, isLoading, fetching, submitting,
                 deleting, clientUsers, started, serverVars>>

HandleSkillChange(skill) ==
  LET has == \E i \in 1..Len(formData.skills) : formData.skills[i] = skill
      updated == IF has THEN SelectSeq(formData.skills, LAMBDA x : x # skill)
                 ELSE Append(formData.skills, skill)
  IN  /\ formData' = [formData EXCEPT !.skills = updated]
      /\ lastEvent' = Event("skill", TRUE)
      /\ UNCHANGED <<passwordValidation, effectPending, editingId, isLoading, fetching,
                     submitting, deleting, clientUsers, started, serverVars>>

\* fetchUsers clearing the flag at the end of its try block instead of finally
FetchDoneNoFinally(ok, list) ==
  /\ fetching > 0
  /\ fetching' = fetching - 1
  /\ clientUsers' = IF ok THEN list ELSE clientUsers
  /\ isLoading' = IF ok THEN FALSE ELSE isLoading
  /\ lastEvent' = Event("fetchDone", ok)
  /\ UNCHANGED <<formData, passwordValidation, effectPending, editingId, submitting,
                 deleting, started, serverVars>>

\* fetchUsers returns: setUsers on success, the toast on failure, finally the flag
FetchDone(ok, list) ==
  /\ fetching > 0
  /\ fetching' = fetching - 1
  /\ clientUsers' = IF ok THEN list ELSE clientUsers
  /\ isLoading' = FALSE
  /\ lastEvent' = Event("fetchDone", ok)
  /\ UNCHANGED <<formData, passwordValidation, effectPending, editingId, submitting,
                 deleting, started, serverVars>>

\* the submit button: the form submits only when the button is enabled and the
\* required inputs are filled; then handleSubmit up to its await
HandleSubmit ==
  /\ ~SubmitDisabled
  /\ RequiredFilled
  /\ started < MaxStarted
  /\ IF (editingId = NoEdit \/ Len(formData.password) > 0) /\ ~IsPasswordValid
     THEN UNCHANGED <<isLoading, submitting, started>>
     ELSE /\ isLoading' = TRUE
          /\ submitting' = submitting + 1
          /\ started' = started + 1
  /\ lastEvent' = Event("submit", TRUE)
  /\ UNCHANGED <<formData, passwordValidation, effectPending, editingId, fetching,
                 deleting, clientUsers, serverVars>>

\* handleSubmit with the reset moved into its finally block
SubmitDoneAlwaysReset(ok) ==
  /\ submitting > 0
  /\ submitting' = submitting - 1
  /\ formData' = EmptyDraft
  /\ editingId' = NoEdit
  /\ effectPending' = (effectPending \/ formData.password # EmptyDraft.password)
  /\ fetching' = IF ok THEN fetching + 1 ELSE fetching
  /\ isLoading' = FALSE
  /\ lastEvent' = Event("submitDone", ok)
  /\ UNCHANGED <<passwordValidation, deleting, clientUsers, started, serverVars>>

\* handleSubmit after its await: reset and fetchUsers() on success, the toast
\* on failure, finally setIsLoading(false)
SubmitDone(ok) ==
  /\ submitting > 0
  /\ submitting' = submitting - 1
  /\ IF ok
     THEN /\ formData' = EmptyDraft
          /\ editingId' = NoEdit
          /\ effectPending' = (effectPending \/ formData.password # EmptyDraft.password)
          /\ fetching' = fetching + 1
     ELSE UNCHANGED <<formData, editingId, effectPending, fetching>>
  /\ isLoading' = FALSE
  /\ lastEvent' = Event("submitDone", ok)
  /\ UNCHANGED <<passwordValidation, deleting, clientUsers, started, serverVars>>

HandleEdit(i) ==
  LET user == clientUsers[i]
  IN  /\ formData' = [name |-> user.name, email |-> user.email, phone |-> user.phone,
                      role |-> user.role, password |-> <<>>, skills |-> user.skills]
      /\ editingId' = user.id
      /\ effectPending' = (effectPending \/ formData.password # <<>>)
      /\ lastEvent' = Event("edit", TRUE)
      /\ UNCHANGED <<passwordValidation, isLoading, fetching, submitting, deleting,
                     clientUsers, started, serverVars>>

\* handleDelete, confirmed, up to its await
HandleDelete(i) ==
  /\ started < MaxStarted
  /\ started' = started + 1
  /\ deleting' = deleting + 1
  /\ isLoading' = TRUE
  /\ lastEvent' = Event("delete", TRUE)
  /\ UNCHANGED <<formData, passwordValidation, effectPending, editingId, fetching,
                 submitting, clientUsers, serverVars>>

\* handleDelete after its await
DeleteDone(ok) ==
  /\ deleting > 0
  /\ deleting' = deleting - 1
  /\ fetching' = IF ok THEN fetching + 1 ELSE fetching
  /\ isLoading' = FALSE
  /\ lastEvent' = Event("deleteDone", ok)
  /\ UNCHANGED <<formData, passwordValidation, effectPending, editingId, submitting,
                 clientUsers, started, serverVars>>

CancelEdit ==
  /\ editingId # NoEdit
  /\ editingId' = NoEdit
  /\ formData' = EmptyDraft
  /\ effectPending' = (effectPending \/ formData.password # EmptyDraft.password)
  /\ lastEvent' = Event("cancel", TRUE)
  /\ UNCHANGED <<passwordValidation, isLoading, fetching, submitting, deleting,
                 clientUsers, started, serverVars>>

\* the component after its first render and its two mount effects
InitClient ==
  /\ formData = EmptyDraft
  /\ passwordValidation = ValidatePassword(<<>>)
  /\ effectPending = FALSE
  /\ editingId = NoEdit
  /\ isLoading = TRUE
  /\ fetching = 1
  /\ submitting = 0
  /\ deleting = 0
  /\ clientUsers = <<>>
  /\ started = 0
  /\ lastEvent = [type |-> "mount", ok |-> TRUE, draft |-> EmptyDraft, editing |-> NoEdit]

\* --------------------------------------------------------------- behaviours
\* the slots a new request can take
FreeSlots == {s \in Slots : CanStart(s)}

NextServer ==
  \/ \E s \in FreeSlots, b \in Bodies : PostStart(s, b)
  \/ \E s \in Slots : PostInsert(s)
  \/ \E s \in FreeSlots, id \in Ids, b \in Bodies : PutStart(s, id, b)
  \/ \E s \in Slots : PutEmailCheck(s)
  \/ \E s \in Slots : PutWrite(s)
  \/ \E s \in FreeSlots, id \in Ids : Delete(s, id)
  \/ \E s \in Slots : Recycle(s)
  \/ ListUsers
  \/ \E id \in Ids : GetUser(id)

NextClient ==
  \/ PasswordEffect
  \/ \E f \in ChangeFields : \E v \in ChangeValues(f) : HandleChange(f, v)
  \/ \E k \in SkillOptions : HandleSkillChange(k)
  \/ \E ok \in BOOLEAN, l \in ServerLists : FetchDone(ok, l)
  \/ HandleSubmit
  \/ \E ok \in BOOLEAN : SubmitDone(ok)
  \/ \E i \in 1..Len(clientUsers) : HandleEdit(i)
  \/ \E i \in 1..Len(clientUsers) : HandleDelete(i)
  \/ \E ok \in BOOLEAN : DeleteDone(ok)
  \/ CancelEdit

\* the record service, handlers interleaving at every await on the pool
Init == InitServer("conc") /\ InitClient
Spec == Init /\ [][NextServer]_vars
\* the record service, one request at a time, over all request bodies
InitSeq == InitServer("seq") /\ InitClient
SpecSeq == InitSeq /\ [][NextServer]_vars
\* the record service, one request at a time, over bodies that break the rules
InitRules == InitServer("rules") /\ InitClient
SpecRules == InitRules /\ [][NextServer]_vars
\* the registration form against a server that answers either way
InitForm == InitServer("client") /\ InitClient
SpecClient == InitForm /\ [][NextClient]_vars
\* the form when every request in flight is answered or fails in the end, and
\* the effect of a render runs after it
ClientFairness ==
  /\ WF_vars(\E ok \in BOOLEAN, l \in ServerLists : FetchDone(ok, l))
  /\ WF_vars(\E ok \in BOOLEAN : SubmitDone(ok))
  /\ WF_vars(\E ok \in BOOLEAN : DeleteDone(ok))
  /\ WF_vars(PasswordEffect)
InitBusy == InitServer("busy") /\ InitClient
SpecClientFair == InitBusy /\ [][NextClient]_vars /\ ClientFairness

\* ------------------------------------------------------------------- claims
Done(s) == req[s].st = "done"
Status(s) == req[s].resp.status
HasMessage(s, text) ==
  "message" \in DOMAIN req[s].resp.body /\ req[s].resp.body.message = text
\* the request passed the validation rules
PassedRules(s) ==
  req[s].method = "DELETE" \/ Validation[req[s].method, req[s].body] = <<>>
SameBody(s, t) == req[s].body = req[t].body

\* C1: in every reachable state of the users table, whatever the interleaving
\* of Create, Update and Delete, no two stored records have the same email.
C1_EmailUnique ==
  \A i, j \in DOMAIN users : i # j => users[i].email # users[j].email

\* C1 witness: two requests passed the email pre-check, one wrote the email and
\* the key rejected the other
C1_Witness ==
  \E s, t \in Slots :
    /\ s # t /\ Done(s) /\ Done(t)
    /\ req[s].wrote /\ req[t].conflict /\ ~req[t].wrote /\ Status(t) = 500
    /\ req[s].post # NoRow /\ req[s].post.email = Sanitize(req[t].body).email

\* C2 (as claimed): a valid Create or Update whose email is owned by another
\* record when it is answered gets the 400 conflict signal and changes nothing;
\* of two Creates with the same email, the only requests received, exactly one
\* is answered 201, the other the 400 conflict signal, and one record is stored.
C2_ConflictSignal ==
  /\ \A s \in Slots :
       (Done(s) /\ req[s].method \in {"POST", "PUT"} /\ PassedRules(s)
          /\ (req[s].method = "PUT" => req[s].found) /\ req[s].conflict)
       => /\ Status(s) = 400
          /\ HasMessage(s, IF req[s].method = "POST" THEN "Email already registered"
                           ELSE "Email already in use by another account")
          /\ ~req[s].wrote
  /\ \A s, t \in Slots :
       (s # t /\ Done(s) /\ Done(t) /\ nreq = 2
          /\ req[s].method = "POST" /\ req[t].method = "POST"
          /\ PassedRules(s) /\ PassedRules(t)
          /\ req[s].body.email = req[t].body.email)
       => /\ {Status(s), Status(t)} = {201, 400}
          /\ Cardinality(DOMAIN users) = 1

\* C6: a Delete, or an Update with a valid payload, that targets an id with no
\* record is answered 404 'User not found' and leaves the table unchanged.
C6_NotFound ==
  \A s \in Slots :
    (Done(s) /\ req[s].method \in {"PUT", "DELETE"} /\ PassedRules(s) /\ ~req[s].found)
    => /\ Status(s) = 404
       /\ HasMessage(s, "User not found")
       /\ ~req[s].wrote
       /\ req[s].pre = NoRow /\ req[s].post = NoRow

\* C6 witness: an Update of a missing id was answered while a record is stored
C6_Witness ==
  \E s, t \in Slots :
    /\ Done(s) /\ req[s].method = "PUT" /\ ~req[s].found /\ Status(s) = 404
    /\ Done(t) /\ req[t].method = "DELETE" /\ ~req[t].found /\ Status(t) = 404
    /\ DOMAIN users # {}

\* a password that is absent, empty or made of white space only
Blank(v) == v = Undef \/ (IsStr(v) /\ \A i \in 1..Len(v[2]) : v[2][i] \in WhiteSpace)
UpdatedOk(s) ==
  Done(s) /\ req[s].method = "PUT" /\ Status(s) = 200 /\ req[s].pre # NoRow

\* C3 (amended): a successful Update whose password is absent, empty or white
\* space only leaves the stored hash of the target record as it was, and one
\* whose password has another character stores a different hash, of that
\* password; name takes the payload's name trimmed, and email, phone, role and
\* skills take the payload's values.
C3_UpdateFrame ==
  \A s \in Slots :
    UpdatedOk(s) =>
      LET b == req[s].body
          pre == req[s].pre
          post == req[s].post
      IN  /\ post.id = pre.id
          /\ post.name = Str(Trim(b.name[2]))
          /\ post.email = b.email /\ post.phone = b.phone /\ post.role = b.role
          /\ JsonParse(post.skills) = [ok |-> TRUE, value |-> b.skills]
          /\ Blank(b.password) => post.password = pre.password
          /\ ~Blank(b.password) =>
               /\ post.password # pre.password
               /\ post.password[3] = b.password[2]

\* C3 witness: an Update with a password of spaces changed the email of a record
\* and kept its hash
C3_Witness ==
  \E s \in Slots :
    /\ UpdatedOk(s) /\ req[s].body.password = SpacesPw
    /\ req[s].post.email # req[s].pre.email
    /\ req[s].post.password = req[s].pre.password

\* C3 (as claimed): with an absent or empty password the hash is as before and
\* every other field holds the payload's value; with a non-empty password the
\* hash is a different value.
C3_AsClaimed ==
  \A s \in Slots :
    UpdatedOk(s) =>
      LET b == req[s].body
          pre == req[s].pre
          post == req[s].post
          empty == b.password = Undef \/ b.password = Str(<<>>)
      IN  /\ empty =>
               /\ post.password = pre.password
               /\ post.name = b.name
               /\ post.email = b.email /\ post.phone = b.phone /\ post.role = b.role
               /\ JsonParse(post.skills) = [ok |-> TRUE, value |-> b.skills]
          /\ ~empty => post.password # pre.password

\* two Updates with the same id and body, one right after the other, the
\* first one applied to an existing record
Twice(s, t) ==
  /\ s # t /\ UpdatedOk(s) /\ Done(t) /\ req[t].method = "PUT"
  /\ req[t].id = req[s].id /\ SameBody(s, t)
  /\ req[t].seq = req[s].seq + 1
WithoutPassword(row) == [row EXCEPT !.password = Null]

\* C10 (amended): the same valid Update applied twice in succession gets the
\* same response both times and leaves name, email, phone, role and skills as
\* one application does; the hash too when the password is absent, empty or
\* white space only, while another password is hashed afresh each time, so
\* that the two stored hashes (of that password) differ.
C10_UpdateTwice ==
  \A s, t \in Slots :
    Twice(s, t) =>
      /\ req[t].resp = req[s].resp
      /\ WithoutPassword(req[t].post) = WithoutPassword(req[s].post)
      /\ Blank(req[s].body.password) => req[t].post.password = req[s].post.password
      /\ ~Blank(req[s].body.password) =>
           /\ req[t].post.password # req[s].post.password
           /\ req[t].post.password[3] = req[s].post.password[3]

\* C10 witness: an Update with a new password was applied twice in succession
C10_Witness ==
  \E s, t \in Slots :
    /\ Twice(s, t) /\ req[s].body.password = Strong
    /\ req[t].pre = req[s].post
    /\ users[req[t].id] = req[t].post

\* C10 (as claimed): the second application leaves the stored record, hash
\* included, as the first left it, and both answers are the same.
C10_AsClaimed ==
  \A s, t \in Slots :
    Twice(s, t) => req[t].post = req[s].post /\ req[t].resp = req[s].resp

\* the values a response body carries: of a record its fields, of a list of
\* validation errors the values echoed, of a list of users the fields of each
Fields(rec) == {rec[f] : f \in DOMAIN rec \ {"id"}}
Carried(body) ==
  IF "message" \in DOMAIN body THEN {}
  ELSE IF "errors" \in DOMAIN body
  THEN {body.errors[i].value : i \in 1..Len(body.errors)}
  ELSE IF "rows" \in DOMAIN body THEN UNION {Fields(u) : u \in body.rows}
  ELSE Fields(body)
\* the stored hash of a record and the password it was made from
Secrets(row) == {row.password, Str(row.password[3])}
Responses == {req[s].resp : s \in {x \in Slots : Done(x)}} \cup {lastRead}

\* C4: no response body of any operation, error responses included, carries
\* the stored password hash or the plaintext password of any record.
C4_NoPasswordInResponses ==
  \A resp \in Responses : \A i \in DOMAIN users :
    Carried(resp.body) \cap Secrets(users[i]) = {}

\* C4 witness: a record is stored, a Get-by-id returned it, and a validation
\* error response echoes the password it rejected
C4_Witness ==
  /\ lastRead.status = 200 /\ "email" \in DOMAIN lastRead.body
  /\ \E i \in DOMAIN users : users[i].email = lastRead.body.email
  /\ \E s \in Slots :
       /\ Done(s) /\ Status(s) = 400 /\ "errors" \in DOMAIN req[s].resp.body
       /\ \E k \in 1..Len(req[s].resp.body.errors) :
            /\ req[s].resp.body.errors[k].path = "password"
            /\ req[s].resp.body.errors[k].value = WeakPw

\* the messages of the rules a Create body breaks
BrokenRules(b) ==
  LET pw == ToChars(b.password)
      If(c, msg) == IF c THEN {msg} ELSE {}
  IN  If(Len(Trim(ToChars(b.name))) < 2, MsgName)
      \cup If(~IsEmail(b.email), MsgEmail)
      \cup If(Len(pw) < 8, MsgLength)
      \cup If(\A i \in 1..Len(pw) : pw[i] \notin UpperCase, MsgUpper)
      \cup If(\A i \in 1..Len(pw) : pw[i] \notin LowerCase, MsgLower)
      \cup If(\A i \in 1..Len(pw) : pw[i] \notin Digit, MsgNumber)
      \cup If(\A i \in 1..Len(pw) : pw[i] \notin Special, MsgSpecial)
      \cup If(b.role \notin {Str(r) : r \in Roles}, MsgRole)
      \cup If(b.phone # Undef /\ ~PhoneMatches(ToChars(b.phone)), MsgPhone)
      \cup If(~IsArr(b.skills), MsgSkills)

\* C5: a Create whose payload breaks a validation rule is answered 400 with a
\* list holding a violation for every rule it breaks, and stores nothing.
C5_CreateRejected ==
  \A s \in Slots :
    (Done(s) /\ req[s].method = "POST" /\ BrokenRules(req[s].body) # {})
    => /\ Status(s) = 400
       /\ "errors" \in DOMAIN req[s].resp.body
       /\ \A m \in BrokenRules(req[s].body) :
            \E k \in 1..Len(req[s].resp.body.errors) : req[s].resp.body.errors[k].msg = m
       /\ ~req[s].wrote

\* C5 witness: with a record stored, a Create breaking the name, email and four
\* password rules at once was rejected
C5_Witness ==
  \E s \in Slots :
    /\ Done(s) /\ req[s].method = "POST" /\ Status(s) = 400
    /\ {MsgName, MsgEmail, MsgLength, MsgUpper, MsgNumber, MsgSpecial}
         \subseteq BrokenRules(req[s].body)
    /\ DOMAIN users # {}

\* C7 (as claimed): at most one submit request is in flight at any time.
C7_SingleSubmit == submitting <= 1

\* the five predicates of the password policy
AllFive(pw) ==
  /\ Len(pw) >= 8
  /\ \E i \in 1..Len(pw) : pw[i] \in UpperCase
  /\ \E i \in 1..Len(pw) : pw[i] \in LowerCase
  /\ \E i \in 1..Len(pw) : pw[i] \in Digit
  /\ \E i \in 1..Len(pw) : pw[i] \in Special

\* C8 (as claimed): whenever it is evaluated, isPasswordValid is true exactly
\* if the current password meets all five predicates, or the form is editing
\* and the password field is empty.
C8_PasswordValidIff ==
  IsPasswordValid <=>
    (AllFive(formData.password) \/ (editingId # NoEdit /\ formData.password = <<>>))

\* C9: when a submit request completes, an accepted one leaves the draft at
\* the empty defaults and editingId null; a rejected or failed one leaves the
\* draft and editingId as they were before the response arrived.
C9_SubmitCompletion ==
  lastEvent.type = "submitDone" =>
    IF lastEvent.ok
    THEN /\ formData = [name |-> <<>>, email |-> <<>>, password |-> <<>>, phone |-> <<>>,
                        role |-> <<"u","s","e","r">>, skills |-> <<>>]
         /\ editingId = NoEdit
    ELSE formData = lastEvent.draft /\ editingId = lastEvent.editing

\* C9 witness: a rejected update has just completed, the draft still filled
\* and the form still editing
C9_Witness ==
  /\ lastEvent.type = "submitDone" /\ ~lastEvent.ok
  /\ editingId # NoEdit /\ formData.password = Strong[2]
  /\ formData.name # <<>>


\* ------------------------------------------------------------ skills column
\* C11 (as claimed): when a GET by id reads the row of a create answered 201
\* exactly as that create stored it, the answer is 200 and its skills are the
\* sequence the create carried, in the same order (the empty sequence for a
\* record created with no skills)
C11_RoundTrip ==
  \A s \in Slots :
    (/\ Done(s) /\ req[s].method = "POST" /\ Status(s) = 201
     /\ lastGet.id = req[s].resp.body.id
     /\ lastGet.row = req[s].post)
    => /\ lastRead.status = 200
       /\ lastRead.body.skills = Sanitize(req[s].body).skills


\* ------------------------------------------------------------------- phone
\* the violations a 400 answer lists for a field
ViolationsOf(s, path) ==
  IF Status(s) = 400 /\ "errors" \in DOMAIN req[s].resp.body
  THEN {i \in 1..Len(req[s].resp.body.errors) : req[s].resp.body.errors[i].path = path}
  ELSE {}

\* the request carries no phone number: the field is omitted, or it is the
\* empty string of a draft whose phone input was left blank
NoPhone(s) == req[s].body.phone \in {Undef, DraftBody(EmptyDraft).phone}

\* C12 (as claimed): a Create or Update whose payload carries no phone number
\* (omitted, or the empty string the form submits) gets no phone violation, and
\* a Create with the form's blank phone, otherwise valid fields and a free
\* email is accepted with 201
C12_PhoneOptional ==
  \A s \in Slots :
    (Done(s) /\ req[s].method \in {"POST", "PUT"} /\ NoPhone(s))
    => /\ ViolationsOf(s, "phone") = {}
       /\ (/\ req[s].method = "POST"
           /\ req[s].body.phone = DraftBody(EmptyDraft).phone
           /\ Validation["POST", [req[s].body EXCEPT !.phone = GoodPhone]] = <<>>
           /\ ~req[s].conflict)
          => Status(s) = 201


\* ---------------------------------------------------------------- busy flag
\* client requests in flight
InFlight == fetching + submitting + deleting

\* the draft would pass: the required inputs are filled and the password of a
\* registration, or a password typed while editing, meets the five rules
ValidDraft ==
  /\ RequiredFilled
  /\ (editingId = NoEdit \/ Len(formData.password) > 0) => AllFive(formData.password)

\* C13: a request that completes, successfully or not, never leaves the busy
\* flag set: whenever no request is in flight isLoading is false, it turns true
\* only in a step that starts a request, from any state the form comes to rest
\* with no request in flight and isLoading false, and then (once the password
\* effect of the render has run) submit is enabled for a valid draft
C13_BusyFlagClears ==
  /\ [](InFlight = 0 => ~isLoading)
  /\ [][(~isLoading /\ isLoading') => InFlight' > InFlight]_vars
  /\ (isLoading ~> (InFlight = 0 /\ ~isLoading))
  /\ []((InFlight = 0 /\ ~effectPending /\ ValidDraft) => ~SubmitDisabled)

\* C13 witness: a request has just failed, none is in flight, the flag is down
\* and submit is enabled for the valid draft
C13_Witness ==
  /\ lastEvent.type \in {"fetchDone", "submitDone", "deleteDone"} /\ ~lastEvent.ok
  /\ InFlight = 0 /\ ~isLoading
  /\ ~effectPending /\ ValidDraft /\ ~SubmitDisabled


\* ------------------------------------------------------- update and delete
\* the row holds the fields of the payload
HoldsPayload(row, b) ==
  /\ row.name = b.name /\ row.email = b.email /\ row.phone = b.phone
  /\ row.role = b.role /\ row.skills = JsonStringify(SkillsOrEmpty(b.skills))

\* C14 (as claimed): an Update answered 200 'User updated successfully' found
\* the record with its id in the table at the moment of its UPDATE statement,
\* and the statement left that record holding the payload's fields, whatever
\* Delete ran between its existence check and its write
C14_UpdateAcknowledged ==
  \A s \in Slots :
    (Done(s) /\ req[s].method = "PUT" /\ Status(s) = 200)
    => /\ req[s].pre # NoRow
       /\ req[s].post # NoRow
       /\ HoldsPayload(req[s].post, Sanitize(req[s].body))

====
